---- MODULE Spec2Model ----
(***************************************************************************)
(* Model of the workout planner (crate workout_rs): Gym::new builds the    *)
(* per-bar configurations, the joint state list and the adjacency graph;   *)
(* Gym::order picks one qualifying state per requirement with a staged     *)
(* dynamic program over all-pairs shortest distances.                      *)
(***************************************************************************)
EXTENDS Integers, Sequences, FiniteSets, TLC

VARIABLES
    plates,               \* caller's inventory: Plate -> count
    bars,                 \* caller's bar list (a slice, in the caller's order)
    pc,                   \* position of the caller / of Gym::order
    states,               \* Gym.states: GymStateId (0..N-1) -> GymState
    graph,                \* Gym.graph: node weights and directed edges
    nodes,                \* Gym.nodes: GymStateId -> NodeIndex
    weights,              \* Gym.weights: Bar -> ascending weights
    bar_options,          \* Gym.bar_options: BarKind -> bars of that kind
    requirements,         \* argument of the running Gym::order call
    requirement_states,   \* order: candidate ids per requirement
    shortest_distances,   \* order: (NodeIndex, NodeIndex) -> cost
    seqs,                 \* order: sequences found so far, one per start state
    dp,                   \* order: DP table of the latest find_optimal_sequence
    optimal_sequence,     \* order: the selected sequence
    outcome,              \* what the call returned: ok / err / panic
    run,                  \* order calls started on this Gym: 0, 1, or 2 for more
    first,                \* outcome of the first completed call
    work,                 \* steps performed by the running call
    tree                  \* graph returned by the caller's Dumbbell::tree call

vars == <<plates, bars, pc, states, graph, nodes, weights, bar_options,
          requirements, requirement_states, shortest_distances, seqs, dp,
          optimal_sequence, outcome, run, first, work, tree>>

gymVars == <<states, graph, nodes, weights, bar_options>>
callVars == <<requirements, requirement_states, shortest_distances, seqs, dp,
              optimal_sequence, outcome, run, first, work>>

(***************************************************************************)
(* Bounds of the model.                                                    *)
(***************************************************************************)
MaxCount == 4      \* largest number of copies of one plate in an inventory
MaxBars == 2       \* longest bar list handed to Gym::new
MaxReqs == 3       \* longest requirement list handed to Gym::order

(***************************************************************************)
(* Program constants.                                                      *)
(***************************************************************************)
ADD_WEIGHT == 1
REMOVE_WEIGHT == 1
\* u32::MAX, the "no cost yet" mark of the DP; TLC's integers are 32-bit signed,
\* so the mark is the largest of those (every cost of the model is far below)
U32_MAX == 2147483647

(***************************************************************************)
(* Generic helpers.                                                        *)
(***************************************************************************)
Range(s) == {s[i] : i \in DOMAIN s}

Perms(S) == {s \in [1..Cardinality(S) -> S] : Range(s) = S}

Reverse(s) == [i \in 1..Len(s) |-> s[Len(s) + 1 - i]]

Min(a, b) == IF a <= b THEN a ELSE b

RECURSIVE Product(_)
Product(sizes) ==
    IF sizes = <<>> THEN 1 ELSE Head(sizes) * Product(Tail(sizes))

RECURSIVE Repeat(_, _)
Repeat(x, n) == IF n = 0 THEN <<>> ELSE <<x>> \o Repeat(x, n - 1)

\* the elements of s at the positions in I, in the order of s
RECURSIVE SubsetSeq(_, _)
SubsetSeq(s, I) ==
    IF s = <<>> THEN <<>>
    ELSE LET n == Len(s)
             front == SubsetSeq(SubSeq(s, 1, n - 1), I)
         IN  IF n \in I THEN Append(front, s[n]) ELSE front

(***************************************************************************)
(* Plate, Bar, BarKind.                                                    *)
(***************************************************************************)
Kinds == {"Dumbbell", "Barbell"}

required_similar_plates(kind) == IF kind = "Dumbbell" THEN 4 ELSE 2

PlateSet ==
    { [weight |-> 1, gauge |-> 1],
      [weight |-> 2, gauge |-> 1],
      [weight |-> 1, gauge |-> 2] }

B1 == [weight |-> 2, gauge |-> 1, kind |-> "Barbell"]
B2 == [weight |-> 2, gauge |-> 2, kind |-> "Barbell"]
D2 == [weight |-> 2, gauge |-> 2, kind |-> "Dumbbell"]

BarSet == {B1, B2, D2}

\* #[derive(PartialOrd, Ord)] on Plate { weight, gauge }
PlateLeq(p, q) ==
    \/ p.weight < q.weight
    \/ p.weight = q.weight /\ p.gauge <= q.gauge

\* impl Sum for Plate: fold from Plate::new(0, 0), adding weights
RECURSIVE PlateSum(_)
PlateSum(ps) ==
    IF ps = <<>> THEN [weight |-> 0, gauge |-> 0]
    ELSE LET acc == PlateSum(SubSeq(ps, 1, Len(ps) - 1))
         IN  [weight |-> acc.weight + ps[Len(ps)].weight, gauge |-> acc.gauge]

\* Itertools::sorted on plates (ascending)
RECURSIVE SortedPlates(_)
SortedPlates(ps) ==
    IF ps = <<>> THEN <<>>
    ELSE LET rest == SortedPlates(Tail(ps))
             x == Head(ps)
             k == Cardinality({i \in DOMAIN rest : PlateLeq(rest[i], x)})
         IN  SubSeq(rest, 1, k) \o <<x>> \o SubSeq(rest, k + 1, Len(rest))

(***************************************************************************)
(* Dumbbell: one configuration of one bar.                                 *)
(***************************************************************************)
DumbbellNew(ps, bar) ==
    [plates |-> SelectSeq(Reverse(SortedPlates(ps)),
                          LAMBDA p : p.gauge = bar.gauge),
     bar |-> bar]

\* a weight that counts all four plates of a unit on each side
DumbbellWeightPerGroup(d) == d.bar.weight + PlateSum(d.plates).weight * 4 * 2

\* Dumbbell::weight
DumbbellWeight(d) == d.bar.weight + PlateSum(d.plates).weight * 2

\* Dumbbell::adjacent: same bar, lengths differ by one, the shorter list
\* matches the longer one position for position by weight
DumbbellAdjacent(a, b) ==
    /\ a.bar = b.bar
    /\ \/ Len(a.plates) = Len(b.plates) + 1
       \/ Len(b.plates) = Len(a.plates) + 1
    /\ \A i \in 1..Min(Len(a.plates), Len(b.plates)) :
           a.plates[i].weight = b.plates[i].weight

\* Ord of Dumbbell, used by Gym::dumbbells' sorted(): lexicographic on the
\* plate list, a proper prefix first
DumbbellLess(a, b) ==
    \E k \in 0..Min(Len(a.plates), Len(b.plates)) :
        /\ \A i \in 1..k : a.plates[i] = b.plates[i]
        /\ \/ k = Len(a.plates) /\ k < Len(b.plates)
           \/ /\ k < Len(a.plates) /\ k < Len(b.plates)
              /\ a.plates[k + 1] # b.plates[k + 1]
              /\ PlateLeq(a.plates[k + 1], b.plates[k + 1])

RECURSIVE SortedDumbbells(_)
SortedDumbbells(S) ==
    IF S = {} THEN <<>>
    ELSE LET least == CHOOSE d \in S : \A e \in S \ {d} : DumbbellLess(d, e)
         IN  <<least>> \o SortedDumbbells(S \ {least})

\* an edge test that accepts any one extra plate, wherever it sorts
TreeEdgeAnyPlate(d1, d2) ==
    /\ DumbbellWeight(d1) # DumbbellWeight(d2)
    /\ \/ Len(d1.plates) - Len(d2.plates) = 1
       \/ Len(d2.plates) - Len(d1.plates) = 1
    /\ \A p \in Range(d1.plates) \cup Range(d2.plates) :
           LET n1 == Cardinality({i \in DOMAIN d1.plates : d1.plates[i] = p})
               n2 == Cardinality({i \in DOMAIN d2.plates : d2.plates[i] = p})
           IN  n1 - n2 \in {-1, 0, 1}

\* the edge test of Dumbbell::tree on a pair of its input set: the weights
\* differ, the lengths differ by one, and the zipped plates agree by weight
TreeEdge(d1, d2) ==
    /\ DumbbellWeight(d1) # DumbbellWeight(d2)
    /\ \/ Len(d1.plates) - Len(d2.plates) = 1
       \/ Len(d2.plates) - Len(d1.plates) = 1
    /\ \A i \in 1..Min(Len(d1.plates), Len(d2.plates)) :
           d1.plates[i].weight = d2.plates[i].weight

\* Dumbbell::tree: a node per dumbbell of the set and an undirected edge of
\* weight 1 for every pair (tuple_combinations) that passes the test
DumbbellTree(ds) ==
    [nodes |-> ds,
     edges |-> {[ends |-> {d1, d2}, weight |-> 1] :
                   <<d1, d2>> \in {pr \in ds \X ds :
                                     pr[1] # pr[2] /\ TreeEdge(pr[1], pr[2])}}]

(***************************************************************************)
(* Gym::dumbbells and Gym::available_dumbbells.                            *)
(***************************************************************************)
\* the inventory's plates in ascending order (weights_map.iter(); the order
\* is immaterial: Dumbbell::new sorts every subset)
RECURSIVE PlateSeq(_)
PlateSeq(S) ==
    IF S = {} THEN <<>>
    ELSE LET least == CHOOSE p \in S : \A q \in S : PlateLeq(p, q)
         IN  <<least>> \o PlateSeq(S \ {least})

\* FlatUnits with the count test off by one (count > required)
RECURSIVE FlatUnitsStrict(_, _, _)
FlatUnitsStrict(weights_map, ps, bar) ==
    IF ps = <<>> THEN <<>>
    ELSE LET plate == Head(ps)
             count == weights_map[plate]
             need == required_similar_plates(bar.kind)
             units == IF count > need THEN Repeat(plate, count \div need)
                      ELSE <<>>
         IN  units \o FlatUnitsStrict(weights_map, Tail(ps), bar)

\* the filter, map and flat_map of Gym::dumbbells: count / required copies
\* of every plate of which the inventory holds at least `required`
RECURSIVE FlatUnits(_, _, _)
FlatUnits(weights_map, ps, bar) ==
    IF ps = <<>> THEN <<>>
    ELSE LET plate == Head(ps)
             count == weights_map[plate]
             need == required_similar_plates(bar.kind)
             units == IF count >= need THEN Repeat(plate, count \div need)
                      ELSE <<>>
         IN  units \o FlatUnits(weights_map, Tail(ps), bar)

\* available_dumbbells over the non-empty subsets only
available_dumbbells_loaded(ps, bar) ==
    IF ps = <<>> THEN {DumbbellNew(<<>>, bar)}
    ELSE {DumbbellNew(SubsetSeq(ps, I), bar) :
             I \in (SUBSET (1..Len(ps))) \ {{}}}

available_dumbbells(ps, bar) ==
    {DumbbellNew(SubsetSeq(ps, I), bar) : I \in SUBSET (1..Len(ps))}

dumbbells(weights_map, bar) ==
    SortedDumbbells(
        available_dumbbells(
            FlatUnits(weights_map, PlateSeq(DOMAIN weights_map), bar), bar))

(***************************************************************************)
(* GymState.                                                               *)
(***************************************************************************)
RECURSIVE AdjacentLoop(_, _, _, _)
AdjacentLoop(self, other, todo, adjacencies) ==
    IF todo = <<>> THEN adjacencies = 1
    ELSE LET bar == Head(todo)
             same == self[bar] = other[bar]
             adjacent == DumbbellAdjacent(self[bar], other[bar])
             count == IF adjacent THEN adjacencies + 1 ELSE adjacencies
         IN  IF bar \notin DOMAIN other
             THEN AdjacentLoop(self, other, Tail(todo), adjacencies)
             ELSE IF ~(same \/ adjacent) THEN FALSE
             ELSE IF count > 1 THEN FALSE
             ELSE AdjacentLoop(self, other, Tail(todo), count)

\* the keys of a map, in one order
RECURSIVE BarSeq(_)
BarSeq(S) ==
    IF S = {} THEN <<>>
    ELSE LET b == CHOOSE x \in S : TRUE IN <<b>> \o BarSeq(S \ {b})

\* GymState::adjacent that ends on adjacencies <= 1
GymStateAdjacentAtMostOne(self, other) ==
    /\ \A bar \in DOMAIN self :
           self[bar] = other[bar] \/ DumbbellAdjacent(self[bar], other[bar])
    /\ Cardinality({bar \in DOMAIN self :
                       DumbbellAdjacent(self[bar], other[bar])}) <= 1

\* GymState::adjacent without the same-or-adjacent test on the other bars
GymStateAdjacentAny(self, other) ==
    Cardinality({bar \in DOMAIN self :
                    DumbbellAdjacent(self[bar], other[bar])}) = 1

\* GymState::adjacent (the loop's verdict does not depend on the order in
\* which the map is walked)
GymStateAdjacent(self, other) ==
    AdjacentLoop(self, other, BarSeq(DOMAIN self), 0)

RECURSIVE SumLens(_, _)
SumLens(state, S) ==
    IF S = {} THEN 0
    ELSE LET b == CHOOSE x \in S : TRUE
         IN  Len(state[b].plates) + SumLens(state, S \ {b})

GymStatePlates(state) == SumLens(state, DOMAIN state)

(***************************************************************************)
(* Gym::new.                                                               *)
(***************************************************************************)
\* Itertools::sorted on weights (ascending)
RECURSIVE SortedWeights(_)
SortedWeights(ws) ==
    IF ws = <<>> THEN <<>>
    ELSE LET rest == SortedWeights(Tail(ws))
             x == Head(ws)
             k == Cardinality({i \in DOMAIN rest : rest[i] <= x})
         IN  SubSeq(rest, 1, k) \o <<x>> \o SubSeq(rest, k + 1, Len(rest))

\* Itertools::dedup: drops an element equal to the one before it
RECURSIVE Dedup(_)
Dedup(ws) ==
    IF Len(ws) <= 1 THEN ws
    ELSE LET front == Dedup(SubSeq(ws, 1, Len(ws) - 1))
         IN  IF ws[Len(ws)] = front[Len(front)] THEN front
             ELSE Append(front, ws[Len(ws)])

\* the weights of a bar's configurations, sorted but with repeats kept
BarWeightsNoDedup(ds) ==
    SortedWeights([i \in 1..Len(ds) |-> DumbbellWeight(ds[i])])

\* the closure of Gym::new that builds one bar's entry of Gym.weights
BarWeights(ds) ==
    Dedup(SortedWeights([i \in 1..Len(ds) |-> DumbbellWeight(ds[i])]))

\* Itertools::multi_cartesian_product: every combination of one element per
\* list, the last list varying fastest
\* a product that pairs the lists position by position instead
ZipProduct(lists) ==
    LET n == IF lists = <<>> THEN 0
             ELSE Len(lists[CHOOSE i \in DOMAIN lists :
                                \A j \in DOMAIN lists :
                                    Len(lists[i]) <= Len(lists[j])])
    IN  [i \in 0..(n - 1) |-> [k \in DOMAIN lists |-> lists[k][i + 1]]]

multi_cartesian_product(lists) ==
    LET n == Len(lists)
        size == [j \in 1..n |-> Len(lists[j])]
        stride(j) == Product(SubSeq(size, j + 1, n))
    IN  [i \in 0..(Product(size) - 1) |->
            [j \in 1..n |-> lists[j][((i \div stride(j)) % size[j]) + 1]]]

\* states of Gym::new; barIter is the order in which the HashMap of per-bar
\* lists hands out its values
GymStates(dmap, barIter) ==
    LET combos == multi_cartesian_product(
                      [j \in 1..Len(barIter) |-> dmap[barIter[j]]])
    IN  [i \in DOMAIN combos |->
            [b \in {combos[i][j].bar : j \in 1..Len(barIter)} |->
                combos[i][CHOOSE j \in 1..Len(barIter) : combos[i][j].bar = b]]]

\* the NodeIndex handed to each id when the nodes are added: petgraph numbers
\* nodes in the order added, and Gym::graph adds them in the order the id
\* map is walked; `forward` picks between the two extreme orders
NodeIndexOf(ids, forward) ==
    [i \in ids |-> IF forward THEN i ELSE Cardinality(ids) - 1 - i]

\* the pairs (i1, i2), i1 < i2, of adjacent states:
\* enumerate().tuple_combinations() yields every such pair once
AdjacentPairs(sts) ==
    {p \in (DOMAIN sts) \X (DOMAIN sts) :
        p[1] < p[2] /\ GymStateAdjacent(sts[p[1]], sts[p[2]])}

\* Gym::graph that adds the removing edge only
GymGraphOneWay(sts, nodeMap) ==
    LET pairs == AdjacentPairs(sts)
        longer(p) == IF GymStatePlates(sts[p[1]]) > GymStatePlates(sts[p[2]])
                     THEN nodeMap[p[1]] ELSE nodeMap[p[2]]
        shorter(p) == IF GymStatePlates(sts[p[1]]) > GymStatePlates(sts[p[2]])
                      THEN nodeMap[p[2]] ELSE nodeMap[p[1]]
    IN  [weight |-> [n \in {nodeMap[i] : i \in DOMAIN sts} |->
                        CHOOSE i \in DOMAIN sts : nodeMap[i] = n],
         edges |-> {[source |-> longer(p), target |-> shorter(p),
                     weight |-> REMOVE_WEIGHT, call |-> <<p, "remove">>] :
                       p \in pairs}]

\* Gym::graph: one node per id, and for each adjacent pair of states one edge
\* in each direction.  An edge carries the add_edge call that made it (the
\* pair and which of the two calls), so two edges between the same nodes in
\* the same direction stay two edges
GymGraph(sts, nodeMap) ==
    LET pairs == AdjacentPairs(sts)
        longer(p) == IF GymStatePlates(sts[p[1]]) > GymStatePlates(sts[p[2]])
                     THEN nodeMap[p[1]] ELSE nodeMap[p[2]]
        shorter(p) == IF GymStatePlates(sts[p[1]]) > GymStatePlates(sts[p[2]])
                      THEN nodeMap[p[2]] ELSE nodeMap[p[1]]
    IN  [weight |-> [n \in {nodeMap[i] : i \in DOMAIN sts} |->
                        CHOOSE i \in DOMAIN sts : nodeMap[i] = n],
         edges |-> {[source |-> longer(p), target |-> shorter(p),
                     weight |-> REMOVE_WEIGHT, call |-> <<p, "remove">>] :
                       p \in pairs}
                   \cup
                   {[source |-> shorter(p), target |-> longer(p),
                     weight |-> ADD_WEIGHT, call |-> <<p, "add">>] :
                       p \in pairs}]

BarOptions(bs) ==
    [k \in {bs[i].kind : i \in DOMAIN bs} |->
        SelectSeq(bs, LAMBDA b : b.kind = k)]

NoCall ==
    /\ requirements = <<>>
    /\ requirement_states = <<>>
    /\ shortest_distances = <<>>
    /\ seqs = <<>>
    /\ dp = <<>>
    /\ optimal_sequence = <<>>
    /\ outcome = [kind |-> "none"]
    /\ run = 0
    /\ first = [kind |-> "none"]
    /\ work = [search |-> 0, johnson |-> 0, dp |-> 0]

Inventories == [PlateSet -> 0..MaxCount]

\* a Gym is built from at least one bar
BarLists == UNION {[1..n -> BarSet] : n \in 1..MaxBars}

InitGym ==
    /\ plates \in Inventories
    /\ bars \in BarLists
    /\ pc = "start"
    /\ states = <<>>
    /\ graph = [weight |-> <<>>, edges |-> {}]
    /\ nodes = <<>>
    /\ weights = <<>>
    /\ bar_options = <<>>
    /\ tree = <<>>
    /\ NoCall

New ==
    /\ pc = "start"
    /\ LET dmap == [b \in Range(bars) |-> dumbbells(plates, b)]
       IN  /\ weights' = [b \in Range(bars) |-> BarWeights(dmap[b])]
           /\ \E barIter \in Perms(Range(bars)) :
                  states' = GymStates(dmap, barIter)
    /\ \E forward \in BOOLEAN : nodes' = NodeIndexOf(DOMAIN states', forward)
    /\ graph' = GymGraph(states', nodes')
    /\ bar_options' = BarOptions(bars)
    /\ pc' = "idle"
    /\ UNCHANGED <<plates, bars, tree>>
    /\ UNCHANGED callVars

\* the caller builds the tree of one bar's configurations instead
\* (Dumbbell::available_from_weight_map, then Dumbbell::tree)
Tree ==
    /\ pc = "start"
    /\ \E bar \in Range(bars) :
           tree' = DumbbellTree(Range(dumbbells(plates, bar)))
    /\ pc' = "tree"
    /\ UNCHANGED <<plates, bars>>
    /\ UNCHANGED gymVars
    /\ UNCHANGED callVars

NextGym == New \/ Tree

SpecGym == InitGym /\ [][NextGym]_vars

(***************************************************************************)
(* Gym::order, step by step.                                               *)
(***************************************************************************)
Requirement(w, k) == [weight |-> w, bar_kind |-> k]

\* Itertools::sorted_by_key: a stable sort
\* with the key of each element
SortedByKey(s, key) ==
    LET rank(i) == Cardinality({j \in DOMAIN s :
                       \/ key[s[j]] < key[s[i]]
                       \/ key[s[j]] = key[s[i]] /\ j <= i})
    IN  [r \in 1..Len(s) |-> s[CHOOSE i \in DOMAIN s : rank(i) = r]]

\* the first bar of the requirement's kind, in bar_options' order, on which
\* the state holds the required weight; <<>> when there is none
MatchingBars(state, requirement) ==
    IF requirement.bar_kind \notin DOMAIN bar_options THEN <<>>
    ELSE SelectSeq(bar_options[requirement.bar_kind],
                   LAMBDA bar : /\ bar \in DOMAIN state
                                /\ DumbbellWeight(state[bar]) = requirement.weight)

\* find_states_for_requirement that matches the weight on a bar of any kind
find_states_any_kind(requirement) ==
    LET onBar(id) == SelectSeq(bars, LAMBDA bar :
                         DumbbellWeight(states[id][bar]) = requirement.weight)
        ids == SelectSeq([i \in 1..Cardinality(DOMAIN states) |-> i - 1],
                   LAMBDA id : onBar(id) # <<>>)
        complexity == [id \in Range(ids) |->
                          Len(states[id][onBar(id)[1]].plates)]
    IN  IF ids = <<>> THEN [ok |-> FALSE, err |-> requirement]
        ELSE [ok |-> TRUE, ids |-> SortedByKey(ids, complexity)]

\* Gym::find_states_for_requirement: [ok, ids] or [ok, err]
find_states_for_requirement(requirement) ==
    LET ids == SelectSeq([i \in 1..Cardinality(DOMAIN states) |-> i - 1],
                   LAMBDA id : MatchingBars(states[id], requirement) # <<>>)
        complexity ==
            [id \in Range(ids) |->
                Len(states[id][MatchingBars(states[id], requirement)[1]].plates)]
    IN  IF ids = <<>> THEN [ok |-> FALSE, err |-> requirement]
        ELSE [ok |-> TRUE, ids |-> SortedByKey(ids, complexity)]

\* requirements.iter().map(find_states_for_requirement).collect::<Result<..>>():
\* the candidate lists, or the first error in input order
RECURSIVE CandidateSearch(_)
CandidateSearch(reqs) ==
    IF reqs = <<>> THEN [ok |-> TRUE, lists |-> <<>>, calls |-> 0]
    ELSE LET found == find_states_for_requirement(Head(reqs))
             rest == CandidateSearch(Tail(reqs))
         IN  IF ~found.ok THEN [ok |-> FALSE, err |-> found.err, calls |-> 1]
             ELSE IF ~rest.ok
                  THEN [ok |-> FALSE, err |-> rest.err, calls |-> rest.calls + 1]
             ELSE [ok |-> TRUE, lists |-> <<found.ids>> \o rest.lists,
                   calls |-> rest.calls + 1]

\* petgraph::algo::johnson on non-negative weights: the cost of a cheapest
\* path for every pair of nodes joined by one; other pairs are absent.
\* Relax extends the known paths (source, target, cost) by one edge, k times,
\* keeping the cheapest per pair
RECURSIVE Relax(_, _, _)
Relax(g, known, k) ==
    IF k = 0 THEN known
    ELSE LET ext == {<<t[1], e.target, t[3] + e.weight>> :
                        <<t, e>> \in {te \in known \X g.edges :
                                         te[2].source = te[1][2]}}
             all == known \cup ext
             best == {t \in all : \A o \in all :
                         (o[1] = t[1] /\ o[2] = t[2]) => t[3] <= o[3]}
         IN  IF best = known THEN known ELSE Relax(g, best, k - 1)

\* a table that holds the edge cost for joined nodes and a flat 3 for others
johnsonDirect(g) ==
    LET ns == DOMAIN g.weight
    IN  [p \in ns \X ns |->
            IF p[1] = p[2] THEN 0
            ELSE IF \E e \in g.edges : e.source = p[1] /\ e.target = p[2]
                 THEN 1 ELSE 3]

johnson(g) ==
    LET ns == DOMAIN g.weight
        known == Relax(g, {<<n, n, 0>> : n \in ns}, Cardinality(ns) - 1)
    IN  [p \in {<<t[1], t[2]>> : t \in known} |->
            (CHOOSE t \in known : t[1] = p[1] /\ t[2] = p[2])[3]]

\* a total that forgets the cost of the predecessor
transition_cost_only(a, b) == b

\* u32::saturating_add
saturating_add(a, b) == IF a > U32_MAX - b THEN U32_MAX ELSE a + b

\* the inner loop of the DP: walks the previous stage in the order `order`
\* and keeps the first predecessor of strictly lower total cost
RECURSIVE BestPrev(_, _, _, _, _)
BestPrev(prevdp, order, current_node, distances, best) ==
    IF order = <<>> THEN best
    ELSE LET prev_state == Head(order)
             pair == <<nodes[prev_state], current_node>>
             total_cost == saturating_add(prevdp[prev_state].cost, distances[pair])
         IN  IF pair \in DOMAIN distances /\ total_cost < best.cost
             THEN BestPrev(prevdp, Tail(order), current_node, distances,
                           [cost |-> total_cost, prev |-> <<prev_state>>])
             ELSE BestPrev(prevdp, Tail(order), current_node, distances, best)

\* one stage of the DP table; an Option is <<>> (None) or <<x>> (Some(x))
DPStage(prevdp, order, candidates, distances) ==
    LET entries == {<<s, BestPrev(prevdp, order, nodes[s], distances,
                                  [cost |-> U32_MAX, prev |-> <<>>])>> :
                       s \in Range(candidates)}
        kept == {e \in entries : e[2].cost # U32_MAX}
    IN  [s \in {e[1] : e \in kept} |-> (CHOOSE e \in kept : e[1] = s)[2]]

\* a first stage that charges every candidate one plate change
DPFirstUnit(start_state, candidates, distances) ==
    [s \in {c \in Range(candidates) :
               <<nodes[start_state], nodes[c]>> \in DOMAIN distances} |->
        [cost |-> 1, prev |-> <<>>]]

\* the first stage of the DP: the candidates the start state reaches, at
\* their distance from it
DPFirst(start_state, candidates, distances) ==
    [s \in {c \in Range(candidates) :
               <<nodes[start_state], nodes[c]>> \in DOMAIN distances} |->
        [cost |-> distances[<<nodes[start_state], nodes[s]>>], prev |-> <<>>]]

\* every DP table the fill loop can produce, over the orders in which each
\* stage's map is walked
RECURSIVE DPTables(_, _, _)
DPTables(tables, rs, distances) ==
    IF Len(tables) = Len(rs) THEN {tables}
    ELSE LET prevdp == tables[Len(tables)]
         IN  UNION {DPTables(Append(tables,
                                    DPStage(prevdp, order, rs[Len(tables) + 1],
                                            distances)),
                             rs, distances) :
                       order \in Perms(DOMAIN prevdp)}

\* min_by_key: the first element of least key
FirstMinBy(s, key) ==
    s[CHOOSE i \in DOMAIN s :
          /\ \A j \in DOMAIN s : key[s[i]] <= key[s[j]]
          /\ \A j \in 1..(i - 1) : key[s[j]] > key[s[i]]]

\* the final state: the last stage, walked in `order`, stably sorted by the
\* state's plate count, then the first entry of least cost
FinalState(lastdp, order) ==
    LET byPlates == SortedByKey(order, [id \in Range(order) |->
                                           GymStatePlates(states[id])])
    IN  FirstMinBy(byPlates, [id \in Range(order) |-> lastdp[id].cost])

\* the path reconstruction loop, stage j down to the second: the states it
\* pushes, in the order pushed
RECURSIVE WalkBack(_, _, _)
WalkBack(tables, current, j) ==
    IF j < 2 THEN <<>>
    ELSE IF current \in DOMAIN tables[j] /\ tables[j][current].prev # <<>>
         THEN LET prev == tables[j][current].prev[1]
              IN  <<prev>> \o WalkBack(tables, prev, j - 1)
         ELSE WalkBack(tables, current, j - 1)

\* Gym::find_optimal_sequence: every result the call can return, over the
\* orders in which its maps are walked; each with the table it was read from
find_optimal_sequence(start_state, rs, distances) ==
    LET n == Len(rs)
    IN  IF n = 0 THEN {[ok |-> TRUE, path |-> <<>>, dp |-> <<>>]}
        ELSE IF n = 1 THEN {[ok |-> TRUE, path |-> <<rs[1][1]>>, dp |-> <<>>]}
        ELSE UNION {
               IF DOMAIN tables[n] = {}
               THEN {[ok |-> FALSE, err |-> Requirement(0, "Dumbbell"),
                      dp |-> tables]}
               ELSE {LET final_state == FinalState(tables[n], order)
                     IN  [ok |-> TRUE,
                          path |-> Reverse(<<final_state>>
                                           \o WalkBack(tables, final_state, n)),
                          dp |-> tables] :
                        order \in Perms(DOMAIN tables[n])} :
               tables \in DPTables(<<DPFirst(start_state, rs[1], distances)>>,
                                   rs, distances)}

\* Gym::find_shortest_path_between_states(..).len(): an A* path over the
\* graph has one node more than its cost; [start, end] when there is none
ShortestPathLen(start, end) ==
    IF start = end THEN 0
    ELSE IF <<nodes[start], nodes[end]>> \in DOMAIN shortest_distances
         THEN shortest_distances[<<nodes[start], nodes[end]>>] + 1
         ELSE 2

\* the conversion loop without its weight test: every bar of the kind is pushed
RECURSIVE EmitAnyWeight(_, _, _)
EmitAnyWeight(sequence, reqs, pos) ==
    IF pos > Len(sequence) THEN [b \in {} |-> <<>>]
    ELSE LET requirement_index == Min(pos, Len(reqs))
             requirement == reqs[requirement_index]
             state == states[sequence[pos]]
             pushed == bar_options[requirement.bar_kind]
             rest == EmitAnyWeight(sequence, reqs, pos + 1)
             entry(bar) == [dumbbell |-> state[bar], index |-> requirement_index]
         IN  [b \in Range(pushed) \cup DOMAIN rest |->
                 (IF b \in Range(pushed) THEN <<entry(b)>> ELSE <<>>)
                 \o (IF b \in DOMAIN rest THEN rest[b] ELSE <<>>)]

\* the conversion loop of Gym::order: per bar, the configurations pushed,
\* each with the index of the requirement it was pushed for
RECURSIVE Emit(_, _, _)
Emit(sequence, reqs, pos) ==
    IF pos > Len(sequence) THEN [b \in {} |-> <<>>]
    ELSE LET requirement_index == Min(pos, Len(reqs))
             requirement == reqs[requirement_index]
             state == states[sequence[pos]]
             pushed == MatchingBars(state, requirement)
             rest == Emit(sequence, reqs, pos + 1)
             entry(bar) == [dumbbell |-> state[bar], index |-> requirement_index]
             mine(bar) == [i \in 1..Cardinality({j \in DOMAIN pushed :
                                                    pushed[j] = bar}) |->
                              entry(bar)]
         IN  [b \in Range(pushed) \cup DOMAIN rest |->
                 (IF b \in Range(pushed) THEN mine(b) ELSE <<>>)
                 \o (IF b \in DOMAIN rest THEN rest[b] ELSE <<>>)]

\* a selection with max_by_key: a sequence of greatest path length between
\* its first two states
SelectSequenceMax(ss) ==
    ss[CHOOSE i \in DOMAIN ss :
           \A j \in DOMAIN ss :
               ShortestPathLen(ss[i][1], ss[i][2])
                   >= ShortestPathLen(ss[j][1], ss[j][2])]

\* the sequence Gym::order keeps: the first, in start-state order, of least
\* path length between its first two states
SelectSequence(ss) ==
    FirstMinBy(ss, [seq \in Range(ss) |-> ShortestPathLen(seq[1], seq[2])])

Ok(plan) == [kind |-> "ok", plan |-> plan]
Err(requirement) == [kind |-> "err", requirement |-> requirement]
Panic == [kind |-> "panic"]
EmptyPlan == [b \in {} |-> <<>>]

\* Gym::order without its test for an empty list
OrderEntryNoEmptyTest(reqs) ==
    LET found == CandidateSearch(reqs)
    IN  IF found.ok
        THEN [pc |-> "johnson", outcome |-> [kind |-> "none"],
              lists |-> found.lists, calls |-> found.calls]
        ELSE [pc |-> "done", outcome |-> Err(found.err),
              lists |-> <<>>, calls |-> found.calls]

\* Gym::order from its entry to the end of the candidate search
OrderEntry(reqs) ==
    IF reqs = <<>>
    THEN [pc |-> "done", outcome |-> Ok(EmptyPlan), lists |-> <<>>, calls |-> 0]
    ELSE LET found == CandidateSearch(reqs)
         IN  IF found.ok
             THEN [pc |-> "johnson", outcome |-> [kind |-> "none"],
                   lists |-> found.lists, calls |-> found.calls]
             ELSE [pc |-> "done", outcome |-> Err(found.err),
                   lists |-> <<>>, calls |-> found.calls]

ReqSet ==
    { Requirement(2, "Barbell"), Requirement(4, "Barbell"),
      Requirement(6, "Barbell"), Requirement(4, "Dumbbell") }

ReqLists == UNION {[1..n -> ReqSet] : n \in 0..MaxReqs}

Call(reqs) ==
    LET entry == OrderEntry(reqs)
    IN  /\ requirements' = reqs
        /\ requirement_states' = entry.lists
        /\ outcome' = entry.outcome
        /\ work' = [search |-> entry.calls, johnson |-> 0, dp |-> 0]
        /\ pc' = entry.pc
        /\ run' = IF run = 0 THEN 1 ELSE 2
        /\ shortest_distances' = <<>>
        /\ seqs' = <<>>
        /\ dp' = <<>>
        /\ optimal_sequence' = <<>>
        /\ UNCHANGED <<plates, bars, tree, first>>
        /\ UNCHANGED gymVars

\* the caller's first order call on the Gym
Order ==
    /\ pc = "idle"
    /\ run = 0
    /\ \E reqs \in ReqLists : Call(reqs)

\* the caller repeats the call with the same requirements
OrderAgain ==
    /\ pc = "idle"
    /\ run >= 1
    /\ Call(requirements)

\* an all-pairs step that leaves the auxiliary source node of Johnson's
\* algorithm in the Gym's graph
JohnsonInPlace ==
    /\ pc = "johnson"
    /\ shortest_distances' = johnson(graph)
    /\ work' = [work EXCEPT !.johnson = @ + 1]
    /\ pc' = "dp"
    /\ graph' = [graph EXCEPT
                     !.weight = [n \in DOMAIN graph.weight
                                        \cup {Cardinality(DOMAIN graph.weight)} |->
                                    IF n \in DOMAIN graph.weight
                                    THEN graph.weight[n] ELSE 0]]
    /\ UNCHANGED <<plates, bars, tree, requirements, requirement_states, seqs, dp,
                   optimal_sequence, outcome, run, first>>
    /\ UNCHANGED <<states, nodes, weights, bar_options>>

\* the all-pairs computation of Gym::order
Johnson ==
    /\ pc = "johnson"
    /\ shortest_distances' = johnson(graph)
    /\ work' = [work EXCEPT !.johnson = @ + 1]
    /\ pc' = "dp"
    /\ UNCHANGED <<plates, bars, tree, requirements, requirement_states, seqs, dp,
                   optimal_sequence, outcome, run, first>>
    /\ UNCHANGED gymVars

\* find_optimal_sequence for the next start state
FindOptimalSequence ==
    /\ pc = "dp"
    /\ LET start_states == requirement_states[1]
           k == Len(seqs) + 1
       IN  \E r \in find_optimal_sequence(start_states[k], requirement_states,
                                          shortest_distances) :
               /\ dp' = r.dp
               /\ work' = [work EXCEPT !.dp = @ + 1]
               /\ IF r.ok
                  THEN /\ seqs' = Append(seqs, r.path)
                       /\ outcome' = outcome
                       /\ pc' = IF k = Len(start_states) THEN "select" ELSE "dp"
                  ELSE /\ seqs' = seqs
                       /\ outcome' = Err(r.err)
                       /\ pc' = "done"
    /\ UNCHANGED <<plates, bars, tree, requirements, requirement_states,
                   shortest_distances, optimal_sequence, run, first>>
    /\ UNCHANGED gymVars

\* min_by_key over the sequences; its key indexes seq[0] and seq[1]
Select ==
    /\ pc = "select"
    /\ IF \E i \in DOMAIN seqs : Len(seqs[i]) < 2
       THEN /\ outcome' = Panic
            /\ pc' = "aborted"
            /\ optimal_sequence' = optimal_sequence
       ELSE IF seqs = <<>>
       THEN /\ outcome' = Err(requirements[1])
            /\ pc' = "done"
            /\ optimal_sequence' = optimal_sequence
       ELSE /\ optimal_sequence' = SelectSequence(seqs)
            /\ outcome' = outcome
            /\ pc' = "emit"
    /\ UNCHANGED <<plates, bars, tree, requirements, requirement_states,
                   shortest_distances, seqs, dp, run, first, work>>
    /\ UNCHANGED gymVars

\* the positions of the sequence whose requirement's kind has no bar
EmitMissing(sequence, reqs) ==
    {pos \in DOMAIN sequence :
        reqs[Min(pos, Len(reqs))].bar_kind \notin DOMAIN bar_options}

EmitResult ==
    /\ pc = "emit"
    /\ LET missing == EmitMissing(optimal_sequence, requirements)
       IN  IF missing # {}
           THEN LET pos == CHOOSE x \in missing : \A y \in missing : x <= y
                IN  outcome' = Err(requirements[Min(pos, Len(requirements))])
           ELSE outcome' = Ok(Emit(optimal_sequence, requirements, 1))
    /\ pc' = "done"
    /\ UNCHANGED <<plates, bars, tree, requirements, requirement_states,
                   shortest_distances, seqs, dp, optimal_sequence, run, first,
                   work>>
    /\ UNCHANGED gymVars

\* the call returns to the caller, who keeps the first result
Return ==
    /\ pc = "done"
    /\ pc' = "idle"
    /\ first' = IF run = 1 THEN outcome ELSE first
    /\ UNCHANGED <<plates, bars, tree, requirements, requirement_states,
                   shortest_distances, seqs, dp, optimal_sequence, outcome, run,
                   work>>
    /\ UNCHANGED gymVars

Inventory(a, b, c) ==
    [p \in PlateSet |->
        IF p = [weight |-> 1, gauge |-> 1] THEN a
        ELSE IF p = [weight |-> 2, gauge |-> 1] THEN b ELSE c]

\* four 1.25 kg and four 2.5 kg plates of one gauge and one Dumbbell bar of
\* 2 kg, in units of 0.25 kg
ScenarioAPlates ==
    [p \in {[weight |-> 5, gauge |-> 1], [weight |-> 10, gauge |-> 1]} |-> 4]

ScenarioABar == [weight |-> 8, gauge |-> 1, kind |-> "Dumbbell"]

\* the gyms on which orders are planned
OrderGyms ==
    { <<Inventory(4, 2, 0), <<B1>> >>,
      <<Inventory(2, 0, 0), <<B1, B2>> >>,
      <<Inventory(2, 0, 4), <<D2, B1>> >>,
      <<Inventory(1, 0, 0), <<B1>> >>,
      <<Inventory(2, 2, 0), <<B1>> >>,
      <<ScenarioAPlates, <<ScenarioABar>> >> }

Init ==
    /\ \E g \in OrderGyms : plates = g[1] /\ bars = g[2]
    /\ pc = "start"
    /\ states = <<>>
    /\ graph = [weight |-> <<>>, edges |-> {}]
    /\ nodes = <<>>
    /\ weights = <<>>
    /\ bar_options = <<>>
    /\ tree = <<>>
    /\ NoCall

Next ==
    \/ New
    \/ Order
    \/ OrderAgain
    \/ Johnson
    \/ FindOptimalSequence
    \/ Select
    \/ EmitResult
    \/ Return

Spec == Init /\ [][Next]_vars

(***************************************************************************)
(* Properties of the configuration enumerator and of the state space.      *)
(***************************************************************************)
\* usable per-side units of a plate on a bar
Units(p, bar) ==
    IF plates[p] >= required_similar_plates(bar.kind) /\ p.gauge = bar.gauge
    THEN plates[p] \div required_similar_plates(bar.kind)
    ELSE 0

Occurrences(ps, p) == Cardinality({i \in DOMAIN ps : ps[i] = p})

Descending(ps) == \A i \in 1..(Len(ps) - 1) : PlateLeq(ps[i + 1], ps[i])

SubMultisets(bar) ==
    {m \in [PlateSet -> 0..MaxCount] : \A p \in PlateSet : m[p] <= Units(p, bar)}

\* C8: the configurations enumerated for a bar are exactly the sub-multisets
\* of its usable units (count / required units of a plate whose count reaches
\* `required` and whose gauge is the bar's, none otherwise), each once and as
\* a descending list, so their number is the product of (units + 1), and the
\* empty configuration is among them
C8_EnumeratorExact ==
    pc # "start" =>
        \A bar \in Range(bars) :
            LET ds == dumbbells(plates, bar)
                all == PlateSeq(PlateSet)
            IN  /\ \A i \in DOMAIN ds :
                       ds[i].bar = bar /\ Descending(ds[i].plates)
                /\ {[p \in PlateSet |-> Occurrences(ds[i].plates, p)] :
                       i \in DOMAIN ds} = SubMultisets(bar)
                /\ \A i, j \in DOMAIN ds : ds[i] = ds[j] => i = j
                /\ Len(ds) = Product([k \in 1..Len(all) |->
                                         Units(all[k], bar) + 1])
                /\ \E i \in DOMAIN ds : ds[i].plates = <<>>

\* a Gym whose bar has a plate with two units, a plate short of one unit and
\* a plate of another gauge
C8_Witness ==
    /\ pc = "idle"
    /\ \E bar \in Range(bars) :
           /\ \E p \in PlateSet : Units(p, bar) >= 2
           /\ \E p \in PlateSet :
                  /\ p.gauge = bar.gauge
                  /\ plates[p] > 0
                  /\ Units(p, bar) = 0
           /\ \E p \in PlateSet :
                  /\ p.gauge # bar.gauge
                  /\ plates[p] >= required_similar_plates(bar.kind)
           /\ Len(dumbbells(plates, bar)) >= 3

\* C10: two states of a Gym are adjacent exactly when one bar alone differs
\* between them and that bar's two configurations are plate-adjacent
C10_StateAdjacency ==
    pc # "start" =>
        \A a, b \in Range(states) :
            GymStateAdjacent(a, b) <=>
                \E bar \in DOMAIN a :
                    /\ a[bar] # b[bar]
                    /\ \A o \in DOMAIN a \ {bar} : a[o] = b[o]
                    /\ DumbbellAdjacent(a[bar], b[bar])

\* a Gym with an adjacent pair, a pair that differs on two bars by one plate
\* each, and a pair whose one differing bar is not plate-adjacent
C10_Witness ==
    /\ pc = "idle"
    /\ \E a, b \in Range(states) : GymStateAdjacent(a, b)
    /\ \E a, b \in Range(states) :
           /\ Cardinality({bar \in DOMAIN a : a[bar] # b[bar]}) = 2
           /\ \A bar \in DOMAIN a :
                  a[bar] # b[bar] => DumbbellAdjacent(a[bar], b[bar])
           /\ ~GymStateAdjacent(a, b)
    /\ \E a, b \in Range(states) :
           /\ Cardinality({bar \in DOMAIN a : a[bar] # b[bar]}) = 1
           /\ ~GymStateAdjacent(a, b)

\* the configurations of one bar
BarConfigs(bar) == Range(dumbbells(plates, bar))

\* the assignments of one configuration to every bar
Assignments ==
    LET bs == Range(bars)
    IN  {f \in [bs -> UNION {BarConfigs(b) : b \in bs}] :
            \A b \in bs : f[b] \in BarConfigs(b)}

StatesAreProduct ==
    pc # "start" =>
        LET bs == BarSeq(Range(bars))
            N == Cardinality(DOMAIN states)
        IN  /\ DOMAIN states = 0..(N - 1)
            /\ Range(states) = Assignments
            /\ \A i, j \in DOMAIN states : states[i] = states[j] => i = j
            /\ N = Product([k \in 1..Len(bs) |-> Cardinality(BarConfigs(bs[k]))])
            /\ DOMAIN nodes = DOMAIN states

StatesFrozen == pc # "start" => states' = states /\ nodes' = nodes

\* C9: the states of a Gym are exactly the assignments of one enumerated
\* configuration to every bar, each under one id of 0..N-1 with N the product
\* of the bars' configuration counts, and neither the states nor their ids
\* change once the Gym is built
C9_StateSpace == []StatesAreProduct /\ [][StatesFrozen]_vars

\* a Gym of two bars with two configurations or more each, after an order
\* call has run on it to its end
C9_Witness ==
    /\ pc = "done"
    /\ outcome.kind = "ok"
    /\ Cardinality(Range(bars)) = 2
    /\ \A b \in Range(bars) : Cardinality(BarConfigs(b)) >= 2
    /\ Cardinality(DOMAIN states) >= 4

(***************************************************************************)
(* Properties of Gym::order.                                               *)
(***************************************************************************)
\* the state holds the requirement's weight on a bar of the requirement's kind
Qualifies(id, requirement) ==
    \E bar \in Range(bars) :
        /\ bar.kind = requirement.bar_kind
        /\ DumbbellWeight(states[id][bar]) = requirement.weight

Unsatisfiable(requirement) ==
    \A id \in DOMAIN states : ~Qualifies(id, requirement)

\* every way of choosing one qualifying state per requirement
Choices ==
    {c \in [1..Len(requirements) -> DOMAIN states] :
        \A i \in 1..Len(requirements) : Qualifies(c[i], requirements[i])}

\* the cost of the cheapest way from one state to another
Distance(a, b) == shortest_distances[<<nodes[a], nodes[b]>>]

RECURSIVE TotalCost(_)
TotalCost(c) ==
    IF Len(c) < 2 THEN 0
    ELSE Distance(c[1], c[2]) + TotalCost(Tail(c))

Returned == pc = "done"

Succeeded == Returned /\ outcome.kind = "ok" /\ requirements # <<>>

\* C1: a successful call on n requirements picks qualifying states whose
\* total transition cost is the least over all choices of one qualifying
\* state per requirement
C1_MinimalTotalCost ==
    Succeeded =>
        \A c \in Choices : TotalCost(optimal_sequence) <= TotalCost(c)

\* C2: in a successful call the state chosen for requirement i qualifies for
\* it, every configuration emitted for requirement i sits on a bar of its kind
\* and has its weight, every requirement is covered, and each bar's list keeps
\* the input order of the requirements
C2_RequirementsSatisfied ==
    Succeeded =>
        /\ Len(optimal_sequence) = Len(requirements)
        /\ \A i \in DOMAIN requirements :
               /\ Qualifies(optimal_sequence[i], requirements[i])
               /\ \E b \in DOMAIN outcome.plan : \E j \in DOMAIN outcome.plan[b] :
                      outcome.plan[b][j].index = i
        /\ \A b \in DOMAIN outcome.plan :
               /\ b \in Range(bars)
               /\ outcome.plan[b] # <<>>
               /\ \A j \in DOMAIN outcome.plan[b] :
                      LET e == outcome.plan[b][j]
                      IN  /\ e.index \in DOMAIN requirements
                          /\ e.dumbbell = states[optimal_sequence[e.index]][b]
                          /\ e.dumbbell.bar = b
                          /\ b.kind = requirements[e.index].bar_kind
                          /\ DumbbellWeight(e.dumbbell)
                                 = requirements[e.index].weight
               /\ \A j, k \in DOMAIN outcome.plan[b] :
                      j < k => outcome.plan[b][j].index < outcome.plan[b][k].index

\* a successful call on three requirements of two kinds in a Gym of two bars,
\* one bar serving two requirements
C2_Witness ==
    /\ Succeeded
    /\ Len(requirements) = 3
    /\ Cardinality(DOMAIN outcome.plan) = 2
    /\ \E b \in DOMAIN outcome.plan : Len(outcome.plan[b]) = 2
    /\ \E i, j \in DOMAIN optimal_sequence :
           optimal_sequence[i] # optimal_sequence[j]

FirstUnsatisfiable ==
    CHOOSE i \in DOMAIN requirements :
        /\ Unsatisfiable(requirements[i])
        /\ \A j \in 1..(i - 1) : ~Unsatisfiable(requirements[j])

\* C3: when some requirement has no qualifying state, the call fails with the
\* first such requirement of the input list, whether its weight cannot be
\* loaded on any bar of its kind or the Gym has no bar of its kind
C3_FirstUnsatisfiableReported ==
    (pc \in {"done", "aborted"}
        /\ \E i \in DOMAIN requirements : Unsatisfiable(requirements[i]))
    => /\ pc = "done"
       /\ outcome = Err(requirements[FirstUnsatisfiable])

\* a failed call whose list holds a requirement of a kind without a bar and,
\* later, another unsatisfiable requirement, after a satisfiable one
C3_Witness ==
    /\ Returned
    /\ outcome.kind = "err"
    /\ FirstUnsatisfiable >= 2
    /\ \A b \in Range(bars) : b.kind # outcome.requirement.bar_kind
    /\ \E j \in DOMAIN requirements :
           /\ j > FirstUnsatisfiable
           /\ Unsatisfiable(requirements[j])
           /\ requirements[j] # outcome.requirement

NoWork == [search |-> 0, johnson |-> 0, dp |-> 0]

\* C4: a call with an empty list returns the empty plan as a success, without
\* a candidate search, an all-pairs computation or a DP run
C4_EmptyListReturnsEmptyPlan ==
    (run >= 1 /\ requirements = <<>>) =>
        /\ pc \in {"done", "idle"}
        /\ outcome = Ok(EmptyPlan)
        /\ work = NoWork
        /\ requirement_states = <<>>
        /\ shortest_distances = <<>>
        /\ seqs = <<>>
        /\ dp = <<>>

\* a call with an empty list has returned, on a Gym with states to search
C4_Witness ==
    /\ Returned
    /\ requirements = <<>>
    /\ run = 1
    /\ Cardinality(DOMAIN states) >= 4

\* C5: a repeated call with the same requirements on the same Gym returns the
\* same result
C5_Deterministic ==
    (Returned /\ run = 2) => outcome = first

\* the predecessors of state s at stage i that reach it at the recorded cost
TiedPredecessors(i, s) ==
    {p \in DOMAIN dp[i - 1] :
        /\ <<nodes[p], nodes[s]>> \in DOMAIN shortest_distances
        /\ dp[i - 1][p].cost + Distance(p, s) = dp[i][s].cost}

LowestId(S) == CHOOSE x \in S : \A y \in S : x <= y

\* the last-stage states of least cost
TiedFinals ==
    LET last == dp[Len(dp)]
    IN  {s \in DOMAIN last : \A o \in DOMAIN last : last[s].cost <= last[o].cost}

\* C6: among predecessors of equal cost the DP records the one of lowest
\* state id, and among final states of equal cost it ends on the one of lowest
\* state id
C6_TiesToLowestId ==
    (dp # <<>> /\ seqs # <<>> /\ pc \in {"dp", "select"}) =>
        /\ \A i \in 2..Len(dp) : \A s \in DOMAIN dp[i] :
               dp[i][s].prev = <<LowestId(TiedPredecessors(i, s))>>
        /\ seqs[Len(seqs)][Len(dp)] = LowestId(TiedFinals)

\* C7: a call that does not succeed returns the one error kind, carrying a
\* requirement of the input list, and nothing else
C7_OneErrorKind ==
    (pc \in {"done", "aborted"} /\ outcome.kind # "ok") =>
        /\ pc = "done"
        /\ outcome.kind = "err"
        /\ DOMAIN outcome = {"kind", "requirement"}
        /\ \E i \in DOMAIN requirements : outcome.requirement = requirements[i]

(***************************************************************************)
(* Properties of adjacency, of the graph and of the distances.             *)
(***************************************************************************)
Weights(ps) == [i \in DOMAIN ps |-> ps[i].weight]

\* the longer list is the shorter one with one more entry at its end, by weight
OneMoreAtEnd(shorter, longer) ==
    /\ Len(longer) = Len(shorter) + 1
    /\ SubSeq(Weights(longer), 1, Len(shorter)) = Weights(shorter)

PlateAdjacent(a, b) ==
    /\ a.bar = b.bar
    /\ OneMoreAtEnd(a.plates, b.plates) \/ OneMoreAtEnd(b.plates, a.plates)

\* the plate that b holds and a does not, when both sit on one bar and b is
\* a and one plate more
ExtraPlates(a, b) ==
    {p \in Range(b.plates) :
        /\ a.bar = b.bar
        /\ Len(b.plates) = Len(a.plates) + 1
        /\ \A q \in Range(a.plates) \cup Range(b.plates) :
               Occurrences(b.plates, q)
                   = Occurrences(a.plates, q) + (IF q = p THEN 1 ELSE 0)}

\* every configuration of every bar of the caller
AllConfigs == UNION {BarConfigs(b) : b \in Range(bars)}

C12_SymmetricIrreflexive ==
    /\ \A a \in AllConfigs : ~DumbbellAdjacent(a, a) /\ ~TreeEdge(a, a)
    /\ \A a, b \in AllConfigs :
           /\ DumbbellAdjacent(a, b) => DumbbellAdjacent(b, a)
           /\ TreeEdge(a, b) => TreeEdge(b, a)
    /\ pc = "tree" => \A e \in tree.edges : Cardinality(e.ends) = 2
    /\ pc = "idle" =>
           /\ \A x \in Range(states) : ~GymStateAdjacent(x, x)
           /\ \A x, y \in Range(states) :
                  GymStateAdjacent(x, y) => GymStateAdjacent(y, x)

\* a Gym of two bars with adjacent states, one pair on each bar
C12_Witness ==
    /\ pc = "idle"
    /\ \A bar \in Range(bars) :
           \E x, y \in Range(states) :
               GymStateAdjacent(x, y) /\ x[bar] # y[bar]
    /\ Cardinality(Range(bars)) = 2

\* exactly one bar differs between the states, by one plate at the end
StateAdjacent(a, b) ==
    \E bar \in DOMAIN a :
        /\ \A o \in DOMAIN a \ {bar} : a[o] = b[o]
        /\ PlateAdjacent(a[bar], b[bar])

\* the (source, target) pairs of the graph's edges
Joined == {<<e.source, e.target>> : e \in graph.edges}

\* C13: the graph of a Gym has one node per state id; between two distinct
\* states there is an edge each way exactly when they are state-adjacent and
\* none otherwise; every edge costs 1, none is a self-loop and no two run
\* between the same nodes in the same direction
C13_GraphIsAdjacency ==
    pc = "idle" =>
        /\ DOMAIN nodes = DOMAIN states
        /\ DOMAIN graph.weight = Range(nodes)
        /\ Cardinality(DOMAIN graph.weight) = Cardinality(DOMAIN states)
        /\ \A i \in DOMAIN states : graph.weight[nodes[i]] = i
        /\ Cardinality(Joined) = Cardinality(graph.edges)
        /\ LET joined == Joined
           IN  \A i, j \in DOMAIN states :
                   <<nodes[i], nodes[j]>> \in joined
                       <=> (i # j /\ StateAdjacent(states[i], states[j]))
        /\ \A e \in graph.edges :
               /\ e.weight = 1
               /\ e.source # e.target
               /\ e.source \in DOMAIN graph.weight
               /\ e.target \in DOMAIN graph.weight

\* a Gym of two bars whose graph has edges on both bars and a pair of
\* distinct states without an edge
C13_Witness ==
    /\ pc = "idle"
    /\ Cardinality(Range(bars)) = 2
    /\ Cardinality(graph.edges) >= 8
    /\ \E i, j \in DOMAIN states : i # j /\ <<nodes[i], nodes[j]>> \notin Joined
    /\ \E i \in DOMAIN states : nodes[i] # i

Defined(a, b) == <<nodes[a], nodes[b]>> \in DOMAIN shortest_distances

\* C14: the distance table of an order call gives every state distance 0 to
\* itself and satisfies the triangle inequality on all defined distances
C14_TriangleInequality ==
    shortest_distances # <<>> =>
        \A a \in DOMAIN states :
            /\ Defined(a, a)
            /\ Distance(a, a) = 0
            /\ \A b, c \in DOMAIN states :
                   (Defined(a, b) /\ Defined(b, c) /\ Defined(a, c)) =>
                       Distance(a, c) <= Distance(a, b) + Distance(b, c)

\* a table with a detour (strict inequality) and a pair whose cheapest way
\* runs through a third state (equality at distance 2 or more)
C14_Witness ==
    /\ shortest_distances # <<>>
    /\ \E a, b, c \in DOMAIN states :
           /\ a # b /\ b # c /\ a # c
           /\ Distance(a, c) < Distance(a, b) + Distance(b, c)
    /\ \E a, b, c \in DOMAIN states :
           /\ a # b /\ b # c
           /\ Distance(a, c) = Distance(a, b) + Distance(b, c)
           /\ Distance(a, c) >= 3

\* the nodes that edges lead to from the nodes of S, and those with them
RECURSIVE ReachFrom(_)
ReachFrom(S) ==
    LET more == S \cup {e.target : e \in {x \in graph.edges : x.source \in S}}
    IN  IF more = S THEN S ELSE ReachFrom(more)

\* the nodes from which edges lead to the nodes of S, and those with them
RECURSIVE ReachTo(_)
ReachTo(S) ==
    LET more == S \cup {e.source : e \in {x \in graph.edges : x.target \in S}}
    IN  IF more = S THEN S ELSE ReachTo(more)

Unloaded == {i \in DOMAIN states : \A bar \in DOMAIN states[i] :
                                      states[i][bar].plates = <<>>}

\* C15: every Gym has the all-unloaded state, every state is reached from it
\* and reaches it along graph edges, and the distance table of an order call
\* holds every pair of states
C15_UnloadedReachesAll ==
    pc # "start" =>
        /\ Cardinality(Unloaded) = 1
        /\ \A i \in Unloaded :
               /\ ReachFrom({nodes[i]}) = Range(nodes)
               /\ ReachTo({nodes[i]}) = Range(nodes)
        /\ shortest_distances # <<>> =>
               DOMAIN shortest_distances = Range(nodes) \X Range(nodes)

\* a distance table over a Gym with a state three plate changes from
\* unloaded, and one over a Gym of two bars with both loaded in some state
C15_Witness ==
    /\ shortest_distances # <<>>
    /\ \/ \E i \in DOMAIN states : GymStatePlates(states[i]) >= 3
       \/ /\ Cardinality(Range(bars)) = 2
          /\ \E i \in DOMAIN states :
                 \A bar \in DOMAIN states[i] : states[i][bar].plates # <<>>

(***************************************************************************)
(* Properties of the available weights.                                    *)
(***************************************************************************)
RECURSIVE SumOfWeights(_)
SumOfWeights(ps) ==
    IF ps = <<>> THEN 0 ELSE ps[1].weight + SumOfWeights(Tail(ps))

\* bar.weight + 2 * sum of the plate weights of a configuration
ConfigWeight(c) == c.bar.weight + 2 * SumOfWeights(c.plates)

\* C16: for every bar, Gym.weights is strictly ascending and holds exactly
\* the weights bar.weight + 2 * (sum of plate weights) of the bar's
\* configurations
C16_AvailableWeights ==
    pc = "idle" =>
        /\ DOMAIN weights = Range(bars)
        /\ \A bar \in Range(bars) :
               /\ \A i \in 1..(Len(weights[bar]) - 1) :
                      weights[bar][i] < weights[bar][i + 1]
               /\ Range(weights[bar]) = {ConfigWeight(c) : c \in BarConfigs(bar)}

\* a bar with two configurations of one weight and at least three weights,
\* next to a bar of another kind
C16_Witness ==
    /\ pc = "idle"
    /\ \E bar \in Range(bars) :
           /\ \E c1, c2 \in BarConfigs(bar) :
                  c1 # c2 /\ ConfigWeight(c1) = ConfigWeight(c2)
           /\ Len(weights[bar]) >= 3
    /\ \E b1, b2 \in Range(bars) : b1.kind # b2.kind

\* the Gym of Scenario A, built
ScenarioA ==
    /\ plates = ScenarioAPlates
    /\ bars = <<ScenarioABar>>
    /\ pc # "start"

\* C17 as stated: in Scenario A the bar's available weights include the
\* bar-only weight and, for each plate weight w of the inventory, the weight
\* bar + 2 * (4 * w)
C17_ScenarioA_AsStated ==
    ScenarioA =>
        /\ ScenarioABar.weight \in Range(weights[ScenarioABar])
        /\ \A p \in DOMAIN plates :
               ScenarioABar.weight + 2 * (4 * p.weight)
                   \in Range(weights[ScenarioABar])

\* C17, amended: in Scenario A each plate weight gives one per-side unit, and
\* the bar's available weights are the bar-only weight, bar + 2 * w for each
\* plate weight w, and bar + 2 * (the sum of both); no weight bar + 2 * (4 * w)
\* is among them
C17_ScenarioA ==
    ScenarioA =>
        /\ \A p \in DOMAIN plates : Units(p, ScenarioABar) = 1
        /\ ScenarioABar.weight \in Range(weights[ScenarioABar])
        /\ \A p \in DOMAIN plates :
               /\ ScenarioABar.weight + 2 * p.weight
                      \in Range(weights[ScenarioABar])
               /\ ScenarioABar.weight + 2 * (4 * p.weight)
                      \notin Range(weights[ScenarioABar])
        /\ weights[ScenarioABar] = <<8, 18, 28, 38>>

\* the Gym of Scenario A with its four configurations and weights
C17_Witness ==
    /\ ScenarioA
    /\ Cardinality(BarConfigs(ScenarioABar)) = 4
    /\ Len(weights[ScenarioABar]) = 4

(***************************************************************************)
(* Properties of the staged search's costs.                                *)
(***************************************************************************)
\* a call of find_optimal_sequence has just returned a sequence read from a
\* DP table
Sequenced == pc \in {"dp", "select"} /\ seqs # <<>> /\ dp # <<>>

\* the sequence it returned
LastSequence == seqs[Len(seqs)]

\* the cost the DP recorded for the selected last-stage state
RecordedCost == dp[Len(dp)][LastSequence[Len(LastSequence)]].cost

\* C18: the total cost the DP records for the selected last-stage state is
\* the sum of the shortest distances between consecutive states of the
\* returned sequence, and nothing else
C18_CostConsistency ==
    Sequenced => RecordedCost = TotalCost(LastSequence)

\* a successful call on two requirements whose nearest qualifying states are
\* two single-plate changes apart: no state qualifies for both, no two
\* qualifying states are adjacent, and some pair is joined through one
\* configuration between them
ScenarioB ==
    /\ Succeeded
    /\ Len(requirements) = 2
    /\ \A c \in Choices : TotalCost(c) >= 2
    /\ \E c \in Choices : TotalCost(c) = 2

Enters == pc = "idle" /\ pc' # "idle"

C21_TwoRequirementsNearestPair ==
    (Succeeded /\ Len(requirements) = 2) =>
        /\ Len(optimal_sequence) = 2
        /\ Qualifies(optimal_sequence[1], requirements[1])
        /\ Qualifies(optimal_sequence[2], requirements[2])
        /\ \A c \in Choices :
               Distance(optimal_sequence[1], optimal_sequence[2])
                   <= Distance(c[1], c[2])

\* an adjacent pair was returned although a pair two steps apart starts from
\* a state of fewer plates
C21_Witness ==
    /\ Succeeded
    /\ Len(requirements) = 2
    /\ Distance(optimal_sequence[1], optimal_sequence[2]) = 1
    /\ \E c \in Choices :
           /\ Distance(c[1], c[2]) = 2
           /\ GymStatePlates(states[c[1]])
                  < GymStatePlates(states[optimal_sequence[1]])

\* the start state of the find_optimal_sequence call that has just returned
StartState == requirement_states[1][Len(seqs)]

\* the totals with which the entries of stage i - 1 reach state s
TotalsInto(i, s) ==
    {dp[i - 1][p].cost + Distance(p, s) : p \in DOMAIN dp[i - 1]}

\* C22: in the DP table of a call with start state x, every candidate s of the
\* first requirement has cost distance(x, s) and no predecessor, x itself
\* cost 0; at every later stage every candidate has the least total
\* cost(p) + distance(p, s) over the entries p of the stage before, and its
\* recorded predecessor attains it
C22_DPRecurrence ==
    Sequenced =>
        /\ Len(dp) = Len(requirement_states)
        /\ DOMAIN dp[1] = Range(requirement_states[1])
        /\ \A s \in DOMAIN dp[1] :
               /\ dp[1][s].cost = Distance(StartState, s)
               /\ dp[1][s].prev = <<>>
        /\ dp[1][StartState].cost = 0
        /\ \A i \in 2..Len(dp) :
               /\ DOMAIN dp[i] = Range(requirement_states[i])
               /\ \A s \in DOMAIN dp[i] :
                      /\ dp[i][s].cost \in TotalsInto(i, s)
                      /\ \A t \in TotalsInto(i, s) : dp[i][s].cost <= t
                      /\ \E p \in DOMAIN dp[i - 1] :
                             /\ dp[i][s].prev = <<p>>
                             /\ dp[i - 1][p].cost + Distance(p, s) = dp[i][s].cost

\* a table of three stages with a first-stage entry of cost above 0, a later
\* entry of cost 2 or more and an entry with predecessors of unequal totals
C22_Witness ==
    /\ Sequenced
    /\ Len(dp) = 3
    /\ \E s \in DOMAIN dp[1] : dp[1][s].cost > 0
    /\ \E s \in DOMAIN dp[3] : dp[3][s].cost >= 2
    /\ \E i \in 2..3 : \E s \in DOMAIN dp[i] : Cardinality(TotalsInto(i, s)) >= 2

\* a call on a non-empty list all of whose requirements have a qualifying
\* state has ended
SatisfiableCallEnded ==
    /\ pc \in {"done", "aborted"}
    /\ requirements # <<>>
    /\ \A i \in DOMAIN requirements : ~Unsatisfiable(requirements[i])

\* C23: a call on one or more requirements that each have a qualifying state
\* returns a success value and never aborts
C23_NeverAborts ==
    SatisfiableCallEnded => pc = "done" /\ outcome.kind = "ok"

\* the places of the returned map: a bar and a position in its list
PlanEntries ==
    UNION {{<<b, j>> : j \in DOMAIN outcome.plan[b]} : b \in DOMAIN outcome.plan}

\* C24: a successful call on n requirements returns n configurations in all,
\* one for each requirement, on one bar
C24_OneConfigurationPerRequirement ==
    Succeeded =>
        /\ Cardinality(PlanEntries) = Len(requirements)
        /\ \A i \in DOMAIN requirements :
               Cardinality({e \in PlanEntries :
                               outcome.plan[e[1]][e[2]].index = i}) = 1

(***************************************************************************)
(* The distances in closed form.                                           *)
(***************************************************************************)
\* the length of the common prefix of two plate lists
CommonPrefix(p, q) ==
    Cardinality({k \in 1..Min(Len(p), Len(q)) : \A j \in 1..k : p[j] = q[j]})

\* plates to take off one configuration and put on to get the other
BarDistance(c, d) ==
    Len(c.plates) + Len(d.plates) - 2 * CommonPrefix(c.plates, d.plates)

RECURSIVE SumBarDistances(_, _, _)
SumBarDistances(a, b, S) ==
    IF S = {} THEN 0
    ELSE LET bar == CHOOSE x \in S : TRUE
         IN  BarDistance(a[bar], b[bar]) + SumBarDistances(a, b, S \ {bar})

PlateDistance(a, b) == SumBarDistances(a, b, DOMAIN a)

\* C25: the shortest distance between two states is the sum over the bars of
\* the two list lengths less twice their common prefix; from the unloaded
\* state it is the state's number of plates; and it is the same both ways
C25_DistanceClosedForm ==
    shortest_distances # <<>> =>
        \A a, b \in DOMAIN states :
            /\ Defined(a, b)
            /\ Defined(b, a)
            /\ Distance(a, b) = PlateDistance(states[a], states[b])
            /\ Distance(a, b) = Distance(b, a)
            /\ a \in Unloaded => Distance(a, b) = GymStatePlates(states[b])

\* a table with two states five plate changes apart and two states that
\* share a first plate and lie two changes apart
C25_Witness ==
    /\ shortest_distances # <<>>
    /\ \E a, b \in DOMAIN states : Distance(a, b) = 5
    /\ \E a, b \in DOMAIN states : \E bar \in DOMAIN states[a] :
           /\ CommonPrefix(states[a][bar].plates, states[b][bar].plates) >= 1
           /\ Distance(a, b) = 2

====
